---- MODULE Spec2Model ----
(***************************************************************************)
(* OmahaResponseHandlerAction (omaha_response_handler_action.cc).          *)
(*                                                                         *)
(* One activation of the action: the pipeline hands it an OmahaResponse,   *)
(* PerformAction() runs once and the ScopedActionCompleter built on its    *)
(* first line reports one status code to the ActionProcessor when the      *)
(* function is left, on whichever return statement that happens.           *)
(*                                                                         *)
(* Strings that the code only compares or copies (version, hash, key,      *)
(* deadline) are TLA+ strings.  URLs are sequences of one-character        *)
(* strings, because AreHashChecksMandatory looks at their first eight      *)
(* characters with a case-insensitive prefix test.                         *)
(***************************************************************************)
EXTENDS Integers, Sequences, FiniteSets, TLC

\* Longest response.payload_urls list that is enumerated.
MaxUrls == 2

----------------------------------------------------------------------------
(* Values the inputs are drawn from *)

EmptyUrl == << >>
UrlHttpsA == << "h", "t", "t", "p", "s", ":", "/", "/", "a" >>
UrlHttpsUpperB == << "H", "T", "T", "P", "S", ":", "/", "/", "b" >>
UrlHttpC == << "h", "t", "t", "p", ":", "/", "/", "c" >>
UrlHttpPeer == << "h", "t", "t", "p", ":", "/", "/", "p" >>

\* Entries of response.payload_urls.
PayloadUrlValues == { UrlHttpsA, UrlHttpC }
\* PayloadState::GetCurrentUrl() results.
CurrentUrlValues == { EmptyUrl, UrlHttpsUpperB, UrlHttpC }
\* OmahaRequestParams::p2p_url() results.
P2PUrlValues == { EmptyUrl, UrlHttpPeer }

VersionValues == { "v1", "v2" }
RollbackVersionValues == { "", "v1" }
HashValues == { "h1", "h2" }
StoredHashValues == { "", "h1" }
PublicKeyValues == { "", "key" }
DeadlineValues == { "", "D1" }

UrlLists == UNION { [1..n -> PayloadUrlValues] : n \in 0..MaxUrls }

\* The fields of OmahaResponse that decide a branch of PerformAction or are
\* written to a store.  size, metadata_size, metadata_signature and
\* is_delta_payload are only copied into install_plan_ (lines 87-90, 106)
\* and are left out, with the plan fields they fill.
Responses ==
    [ update_exists : BOOLEAN,
      version : VersionValues,
      hash : HashValues,
      public_key_rsa : PublicKeyValues,
      payload_urls : UrlLists,
      deadline : DeadlineValues ]

\* What the collaborators answer during one activation.  The two powerwash
\* flags of OmahaRequestParams only fill install_plan_.powerwash_required
\* (lines 115-116) and are left out with it.
Environments ==
    [ rollback_version : RollbackVersionValues,
      current_url : CurrentUrlValues,
      use_p2p_for_downloading : BOOLEAN,
      p2p_url : P2PUrlValues,
      is_official_build : BOOLEAN,
      install_dev_ok : BOOLEAN,
      has_output_pipe : BOOLEAN ]

\* Results of the three calls whose failure the code only logs or ignores.
WriteResults ==
    [ reset_ok : BOOLEAN, set_string_ok : BOOLEAN, write_file_ok : BOOLEAN ]

----------------------------------------------------------------------------
(* Status codes *)

kErrorCodeSuccess == "kErrorCodeSuccess"
kErrorCodeError == "kErrorCodeError"
kErrorCodeOmahaResponseInvalid == "kErrorCodeOmahaResponseInvalid"

\* The code a ScopedActionCompleter holds until set_code() is called.
CompleterInitialCode == kErrorCodeError

NoPlan == [ none |-> TRUE ]
OldDeadline == "OLD"

\* install_plan_ as the InstallPlan default constructor leaves it.
EmptyInstallPlan ==
    [ download_url |-> EmptyUrl,
      version |-> "",
      payload_hash |-> "",
      public_key_rsa |-> "",
      hash_checks_mandatory |-> FALSE,
      is_resume |-> FALSE,
      install_path |-> "",
      kernel_install_path |-> "" ]

\* What utils::GetInstallDev and utils::KernelDeviceOfBootDevice answer for
\* the boot device of the modelled machine.
InstallDevOfBootDevice == "/dev/sda5"
KernelDevOfInstallDev == "/dev/sda4"

\* Stored update progress (kPrefsUpdateStateNextOperation): a download was
\* interrupted at some operation, or the progress has been reset.
ProgressInterrupted == "operation"
ProgressInvalid == "kUpdateStateOperationInvalid"

----------------------------------------------------------------------------
(* The program's state *)

VARIABLES
    pc,                       \* "start": handed its input; "done": PerformAction returned
    response,                 \* the input object (GetInputObject())
    env,                      \* the collaborators' answers in this activation
    install_plan_,            \* member install_plan_
    got_no_update_response_,  \* member got_no_update_response_
    output,                   \* what SetOutputObject put in the output pipe
    completions,              \* number of ActionComplete calls on the processor
    code,                     \* the code passed to ActionComplete
    using_p2p,                \* PayloadState: SetUsingP2PForDownloading value
    prefs_hash,               \* prefs: kPrefsUpdateCheckResponseHash
    prefs_progress,           \* prefs: stored update progress
    deadline_file,            \* content of deadline_file_
    calls                     \* the side-effecting calls made, in order

vars ==
    << pc, response, env, install_plan_, got_no_update_response_, output,
       completions, code, using_p2p, prefs_hash, prefs_progress,
       deadline_file, calls >>

----------------------------------------------------------------------------
(* Helpers of the code *)

ToLowerASCII(c) ==
    CASE c = "H" -> "h"
      [] c = "T" -> "t"
      [] c = "P" -> "p"
      [] c = "S" -> "s"
      [] OTHER -> c

\* base::StartsWithASCII(str, search, case_sensitive)
StartsWithASCII(str, search, case_sensitive) ==
    /\ Len(str) >= Len(search)
    /\ \A i \in 1..Len(search) :
          IF case_sensitive
          THEN str[i] = search[i]
          ELSE ToLowerASCII(str[i]) = ToLowerASCII(search[i])

HttpsPrefix == << "h", "t", "t", "p", "s", ":", "/", "/" >>

\* Mutant: the download URL is not looked at, only response.payload_urls.
AreHashChecksMandatory_PayloadUrlsOnly(resp, is_official_build, download_url) ==
    IF ~is_official_build
    THEN resp.public_key_rsa # ""
    ELSE \E i \in 1..Len(resp.payload_urls) :
            ~StartsWithASCII(resp.payload_urls[i], HttpsPrefix, FALSE)

\* OmahaResponseHandlerAction::AreHashChecksMandatory; download_url is
\* install_plan_.download_url at the time of the call.
AreHashChecksMandatory(resp, is_official_build, download_url) ==
    IF ~is_official_build
    THEN resp.public_key_rsa # ""
    ELSE IF ~StartsWithASCII(download_url, HttpsPrefix, FALSE)
    THEN TRUE
    ELSE \E i \in 1..Len(resp.payload_urls) :
            ~StartsWithASCII(resp.payload_urls[i], HttpsPrefix, FALSE)

\* DeltaPerformer::CanResumeUpdate(prefs, response.hash)
CanResumeUpdate(stored_hash, update_check_response_hash) ==
    /\ stored_hash # ""
    /\ stored_hash = update_check_response_hash

Call(op, ok) == [ op |-> op, ok |-> ok ]

----------------------------------------------------------------------------
(* PerformAction, statement by statement.  st is the record of everything  *)
(* the function can change; resp and e are what it reads; w says which of  *)
(* the ignorable writes succeed.                                           *)

\* set_code on the ScopedActionCompleter.
SetCode(st, c) == [ st EXCEPT !.code = c ]

\* ~ScopedActionCompleter: on leaving PerformAction the processor is told
\* the action completed, with the code the completer holds.
ActionComplete(st) ==
    [ st EXCEPT !.completions = @ + 1,
                !.calls = Append(@, Call("ActionComplete", TRUE)) ]

\* Mutant: the peer URL is taken without testing that it is not empty.
ResolveDownloadUrl_PeerUrlNotTested(st, resp, e) ==
    LET s1 == [ st EXCEPT !.install_plan.download_url = e.current_url,
                          !.install_plan.version = resp.version ]
    IN  IF e.use_p2p_for_downloading
        THEN [ s1 EXCEPT !.install_plan.download_url = e.p2p_url,
                         !.using_p2p = TRUE,
                         !.calls = Append(@, Call("SetUsingP2PForDownloading", TRUE)) ]
        ELSE s1

\* Mutant: a known peer is used whether or not p2p downloading is enabled.
ResolveDownloadUrl_P2PFlagNotTested(st, resp, e) ==
    LET s1 == [ st EXCEPT !.install_plan.download_url = e.current_url,
                          !.install_plan.version = resp.version ]
    IN  IF e.p2p_url # EmptyUrl
        THEN [ s1 EXCEPT !.install_plan.download_url = e.p2p_url,
                         !.using_p2p = TRUE,
                         !.calls = Append(@, Call("SetUsingP2PForDownloading", TRUE)) ]
        ELSE s1

\* Lines 72-84: the current URL becomes the download URL, replaced by the
\* local peer's URL when p2p is used and a peer is known.
ResolveDownloadUrl(st, resp, e) ==
    LET s1 == [ st EXCEPT !.install_plan.download_url = e.current_url,
                          !.install_plan.version = resp.version ]
    IN  IF e.use_p2p_for_downloading /\ e.p2p_url # EmptyUrl
        THEN [ s1 EXCEPT !.install_plan.download_url = e.p2p_url,
                         !.using_p2p = TRUE,
                         !.calls = Append(@, Call("SetUsingP2PForDownloading", TRUE)) ]
        ELSE s1

\* Lines 87-92: the plan's properties copied from the response.
FillPlanFromResponse(st, resp, e) ==
    [ st EXCEPT !.install_plan.payload_hash = resp.hash,
                !.install_plan.public_key_rsa = resp.public_key_rsa,
                !.install_plan.hash_checks_mandatory =
                    AreHashChecksMandatory(resp, e.is_official_build,
                                           st.install_plan.download_url) ]

\* Mutant: the restart branch is not an else branch, so a resumed update is
\* marked restarted and reset as well.
ResumeOrRestart_RestartAlways(st, resp, w) ==
    LET resume == CanResumeUpdate(st.prefs_hash, resp.hash)
        s1 == [ st EXCEPT !.install_plan.is_resume = resume ]
        s2 == IF resume
              THEN [ s1 EXCEPT !.calls = Append(@, Call("UpdateResumed", TRUE)) ]
              ELSE s1
    IN  [ s2 EXCEPT
            !.prefs_progress = IF w.reset_ok THEN ProgressInvalid ELSE @,
            !.prefs_hash = IF w.set_string_ok THEN resp.hash ELSE @,
            !.calls = @ \o << Call("UpdateRestarted", TRUE),
                              Call("ResetUpdateProgress", w.reset_ok),
                              Call("SetString", w.set_string_ok) >> ]

\* Lines 93-105: resume or restart, with the prefs writes of a restart.
ResumeOrRestart(st, resp, w) ==
    LET resume == CanResumeUpdate(st.prefs_hash, resp.hash)
        s1 == [ st EXCEPT !.install_plan.is_resume = resume ]
        s2 == IF resume
              THEN [ s1 EXCEPT !.calls = Append(@, Call("UpdateResumed", TRUE)) ]
              ELSE [ s1 EXCEPT
                       !.prefs_progress =
                           IF w.reset_ok THEN ProgressInvalid ELSE @,
                       !.prefs_hash =
                           IF w.set_string_ok THEN resp.hash ELSE @,
                       !.calls = @ \o << Call("UpdateRestarted", TRUE),
                                         Call("ResetUpdateProgress", w.reset_ok),
                                         Call("SetString", w.set_string_ok) >> ]
    IN  s2

\* Lines 108-113: the device paths, once GetInstallDev has succeeded.
SetInstallPaths(st, e) ==
    [ st EXCEPT !.install_plan.install_path = InstallDevOfBootDevice,
                !.install_plan.kernel_install_path = KernelDevOfInstallDev ]

\* Lines 120-121: SetOutputObject(install_plan_) when there is a pipe.
HandPlanDownstream(st, e) ==
    IF e.has_output_pipe
    THEN [ st EXCEPT !.output = st.install_plan,
                     !.calls = Append(@, Call("SetOutputObject", TRUE)) ]
    ELSE st

\* Lines 132-135: the deadline goes to the deadline file; neither result
\* is looked at.
WriteDeadlineFile(st, resp, w) ==
    [ st EXCEPT !.deadline_file = IF w.write_file_ok THEN resp.deadline ELSE @,
                !.calls = @ \o << Call("WriteFile", w.write_file_ok),
                                  Call("chmod", TRUE) >> ]

\* Mutant: a failed deadline file write keeps the code from being set.
FinishWithPlan_WriteFileDecides(st, resp, e, w) ==
    IF ~e.has_output_pipe
    THEN st
    ELSE LET s1 == WriteDeadlineFile(HandPlanDownstream(st, e), resp, w)
         IN  IF w.write_file_ok THEN SetCode(s1, kErrorCodeSuccess) ELSE s1

\* Lines 119-137: from the output pipe test to the end of the function.
FinishWithPlan(st, resp, e, w) ==
    IF ~e.has_output_pipe
    THEN st
    ELSE SetCode(WriteDeadlineFile(HandPlanDownstream(st, e), resp, w),
                 kErrorCodeSuccess)

\* Mutant: the result of GetInstallDev is not tested.
BuildPlan_InstallDevNotTested(st, resp, e, w) ==
    LET s1 == ResolveDownloadUrl(st, resp, e)
        s2 == FillPlanFromResponse(s1, resp, e)
        s3 == ResumeOrRestart(s2, resp, w)
    IN  FinishWithPlan(SetInstallPaths(s3, e), resp, e, w)

\* Lines 72-137: what PerformAction does once the abort checks have passed
\* and there is a current URL.
BuildPlan(st, resp, e, w) ==
    LET s1 == ResolveDownloadUrl(st, resp, e)
        s2 == FillPlanFromResponse(s1, resp, e)
        s3 == ResumeOrRestart(s2, resp, w)
    IN  IF ~e.install_dev_ok
        THEN s3
        ELSE FinishWithPlan(SetInstallPaths(s3, e), resp, e, w)

\* Mutant: the rollback version is not compared with the response's.
PerformActionBody_RollbackNotChecked(st, resp, e, w) ==
    IF ~resp.update_exists
    THEN [ st EXCEPT !.got_no_update_response = TRUE ]
    ELSE IF e.current_url = EmptyUrl
    THEN SetCode(st, kErrorCodeOmahaResponseInvalid)
    ELSE BuildPlan(st, resp, e, w)

\* Mutant: the download URL is tested for emptiness after the peer
\* substitution instead of the current URL before it.
PerformActionBody_UrlTestedAfterPeer(st, resp, e, w) ==
    IF ~resp.update_exists
    THEN [ st EXCEPT !.got_no_update_response = TRUE ]
    ELSE IF e.rollback_version # "" /\ e.rollback_version = resp.version
    THEN st
    ELSE IF ResolveDownloadUrl(st, resp, e).install_plan.download_url = EmptyUrl
    THEN SetCode(ResolveDownloadUrl(st, resp, e), kErrorCodeOmahaResponseInvalid)
    ELSE BuildPlan(st, resp, e, w)

\* Lines 40-138: the body of PerformAction up to its return.
PerformActionBody(st, resp, e, w) ==
    IF ~resp.update_exists
    THEN [ st EXCEPT !.got_no_update_response = TRUE ]
    ELSE IF e.rollback_version # "" /\ e.rollback_version = resp.version
    THEN st
    ELSE IF e.current_url = EmptyUrl
    THEN SetCode(st, kErrorCodeOmahaResponseInvalid)
    ELSE BuildPlan(st, resp, e, w)

\* Mutant: the completer is built after the no-update return.
RunPerformAction_CompleterAfterNoUpdate(st, resp, e, w) ==
    IF ~resp.update_exists
    THEN PerformActionBody(st, resp, e, w)
    ELSE ActionComplete(PerformActionBody(st, resp, e, w))

\* PerformAction with the completer's destructor run at its return.
RunPerformAction(st, resp, e, w) ==
    ActionComplete(PerformActionBody(st, resp, e, w))

\* The changeable state as PerformAction finds it; the completer is built
\* on entry.
EntryState ==
    [ install_plan |-> install_plan_,
      got_no_update_response |-> got_no_update_response_,
      output |-> output,
      completions |-> completions,
      code |-> CompleterInitialCode,
      using_p2p |-> using_p2p,
      prefs_hash |-> prefs_hash,
      prefs_progress |-> prefs_progress,
      deadline_file |-> deadline_file,
      calls |-> calls ]

----------------------------------------------------------------------------
(* Specification *)

\* The action as its constructor leaves it, bonded into a pipeline with an
\* input object, and the stores as an earlier run may have left them.
Init ==
    /\ pc = "start"
    /\ response \in Responses
    /\ env \in Environments
    /\ install_plan_ = EmptyInstallPlan
    /\ got_no_update_response_ = FALSE
    /\ output = NoPlan
    /\ completions = 0
    /\ code = "none"
    /\ using_p2p = FALSE
    /\ prefs_hash \in StoredHashValues
    /\ prefs_progress = ProgressInterrupted
    /\ deadline_file = OldDeadline
    /\ calls = << >>

PerformAction ==
    /\ pc = "start"
    /\ \E w \in WriteResults :
         LET st == RunPerformAction(EntryState, response, env, w)
         IN  /\ install_plan_' = st.install_plan
             /\ got_no_update_response_' = st.got_no_update_response
             /\ output' = st.output
             /\ completions' = st.completions
             /\ code' = st.code
             /\ using_p2p' = st.using_p2p
             /\ prefs_hash' = st.prefs_hash
             /\ prefs_progress' = st.prefs_progress
             /\ deadline_file' = st.deadline_file
             /\ calls' = st.calls
    /\ pc' = "done"
    /\ UNCHANGED << response, env >>

Next == PerformAction

Spec == Init /\ [][Next]_vars

----------------------------------------------------------------------------
(* Vocabulary of the properties *)

Done == pc = "done"

HasCall(log, op) == \E i \in DOMAIN log : log[i].op = op
CallCount(log, op) == Cardinality({ i \in DOMAIN log : log[i].op = op })

NoUpdate == ~response.update_exists
RollbackAvoided ==
    /\ response.update_exists
    /\ env.rollback_version # ""
    /\ env.rollback_version = response.version
PassesAbortChecks == ~NoUpdate /\ ~RollbackAvoided
ResponseInvalid == PassesAbortChecks /\ env.current_url = EmptyUrl
\* The activation gets as far as line 72.
ReachesPlan == PassesAbortChecks /\ env.current_url # EmptyUrl
DeviceResolutionFailure == ReachesPlan /\ ~env.install_dev_ok
PeerSubstitution == env.use_p2p_for_downloading /\ env.p2p_url # EmptyUrl

\* The status an activation signals when only the install device cannot be
\* resolved, computed by the model on one such activation.
DeviceResolutionFailureStatus ==
    RunPerformAction(
        [ install_plan |-> EmptyInstallPlan, got_no_update_response |-> FALSE,
          output |-> NoPlan, completions |-> 0, code |-> CompleterInitialCode,
          using_p2p |-> FALSE, prefs_hash |-> "",
          prefs_progress |-> ProgressInterrupted,
          deadline_file |-> OldDeadline, calls |-> << >> ],
        [ update_exists |-> TRUE, version |-> "v1", hash |-> "h1",
          public_key_rsa |-> "", payload_urls |-> << UrlHttpsA >>,
          deadline |-> "D1" ],
        [ rollback_version |-> "", current_url |-> UrlHttpC,
          use_p2p_for_downloading |-> FALSE, p2p_url |-> EmptyUrl,
          is_official_build |-> TRUE, install_dev_ok |-> FALSE,
          has_output_pipe |-> TRUE ],
        [ reset_ok |-> TRUE, set_string_ok |-> TRUE, write_file_ok |-> TRUE ]).code

----------------------------------------------------------------------------
(* C1 *)

\* C1 as stated: an activation with no update, or with the version that was
\* rolled back from, produces no plan and signals a status that differs from
\* the status of both error outcomes, ResponseInvalid and
\* DeviceResolutionFailure.
C1_NeutralStatusOnBenignAbort ==
    Done /\ (NoUpdate \/ RollbackAvoided) =>
        /\ output = NoPlan
        /\ completions = 1
        /\ code # kErrorCodeOmahaResponseInvalid
        /\ code # DeviceResolutionFailureStatus

\* C1 amended: an activation with no update, or with the version that was
\* rolled back from, produces no plan and signals once the status the
\* completer starts with, which is neither Success nor the ResponseInvalid
\* status and is the status DeviceResolutionFailure signals too; the
\* no-update case alone is recorded in got_no_update_response_.
C1_BenignAbortSignalsInitialCode ==
    Done /\ (NoUpdate \/ RollbackAvoided) =>
        /\ output = NoPlan
        /\ completions = 1
        /\ code = CompleterInitialCode
        /\ code # kErrorCodeSuccess
        /\ code # kErrorCodeOmahaResponseInvalid
        /\ code = DeviceResolutionFailureStatus
        /\ got_no_update_response_ = NoUpdate

C1_Witness ==
    /\ Done
    /\ RollbackAvoided
    /\ env.current_url # EmptyUrl
    /\ env.install_dev_ok
    /\ env.has_output_pipe
    /\ completions = 1

----------------------------------------------------------------------------
(* C2 *)

\* C2 as stated: an activation that passes the abort checks, has a current
\* URL and resolves its install device ends in Success with or without an
\* output pipe: the plan is handed downstream exactly when there is a pipe,
\* and in both cases the deadline write is made and Success is signaled.
C2_SuccessWithOrWithoutSink ==
    Done /\ ReachesPlan /\ env.install_dev_ok =>
        /\ code = kErrorCodeSuccess
        /\ (output # NoPlan) <=> env.has_output_pipe
        /\ HasCall(calls, "WriteFile")

----------------------------------------------------------------------------
(* C3 *)

\* C3: whenever a plan has been handed downstream, the response announced an
\* update, its version is not the non-empty rollback version, and the plan's
\* download_url is not empty.
C3_PlanOnlyForUsableUpdate ==
    output # NoPlan =>
        /\ HasCall(calls, "SetOutputObject")
        /\ response.update_exists
        /\ ~(env.rollback_version # "" /\ env.rollback_version = response.version)
        /\ output.download_url # EmptyUrl

C3_Witness ==
    /\ output # NoPlan
    /\ env.use_p2p_for_downloading
    /\ env.p2p_url = EmptyUrl
    /\ env.rollback_version # ""

----------------------------------------------------------------------------
(* C4 *)

\* C4: every activation that has its input object can run, and once
\* PerformAction has returned the processor has been told exactly once that
\* the action completed, as the last call of the activation, on every path.
C4_CompletesExactlyOnce ==
    /\ pc = "start" => completions = 0 /\ ENABLED PerformAction
    /\ Done =>
          /\ completions = 1
          /\ CallCount(calls, "ActionComplete") = 1
          /\ calls[Len(calls)].op = "ActionComplete"
          /\ code # "none"

C4_Witness ==
    /\ Done
    /\ NoUpdate
    /\ completions = 1

----------------------------------------------------------------------------
(* C5 *)

\* The URLs of the input sets that use the secure scheme.
SecureUrls == { UrlHttpsA, UrlHttpsUpperB }

\* HashPolicy of the specification, section 4.2.
MandatoryHash(officialBuild, hasPublicKey, resolvedUrl, payloadUrls) ==
    IF ~officialBuild
    THEN hasPublicKey
    ELSE \/ resolvedUrl \notin SecureUrls
         \/ \E i \in DOMAIN payloadUrls : payloadUrls[i] \notin SecureUrls

\* C5: in every produced plan hash_checks_mandatory is MandatoryHash of the
\* official-build flag, the presence of a public key, the plan's final
\* download_url and the response's payload_urls.
C5_HashChecksFollowPolicy ==
    output # NoPlan =>
        output.hash_checks_mandatory =
            MandatoryHash(env.is_official_build, response.public_key_rsa # "",
                          output.download_url, response.payload_urls)

\* Official build, only https payload URLs, an https current URL replaced by
\* a peer's http URL: the checks are mandatory.
C5_Witness ==
    /\ output # NoPlan
    /\ env.is_official_build
    /\ response.payload_urls = << UrlHttpsA, UrlHttpsA >>
    /\ env.current_url = UrlHttpsUpperB
    /\ output.download_url = UrlHttpPeer
    /\ output.hash_checks_mandatory

----------------------------------------------------------------------------
(* C6 *)

\* C6: past the abort checks, an empty current URL ends in the
\* ResponseInvalid status, an unresolvable install device ends in an error
\* status that is not the ResponseInvalid status, and neither hands a plan
\* downstream.
C6_ErrorOutcomes ==
    /\ Done /\ ResponseInvalid =>
          /\ code = kErrorCodeOmahaResponseInvalid
          /\ output = NoPlan
          /\ completions = 1
    /\ Done /\ DeviceResolutionFailure =>
          /\ code # kErrorCodeOmahaResponseInvalid
          /\ code # kErrorCodeSuccess
          /\ output = NoPlan
          /\ completions = 1

C6_Witness ==
    /\ Done
    /\ DeviceResolutionFailure
    /\ env.has_output_pipe
    /\ code = kErrorCodeError

----------------------------------------------------------------------------
(* C7 *)

\* C7: in an activation that builds a plan, with p2p enabled and a non-empty
\* peer URL the plan's download_url is the peer URL and the p2p-in-use flag
\* is true; otherwise download_url is the current URL and the flag is not
\* written.  The plan handed downstream is that plan.
C7_PeerUrlSubstitution ==
    Done /\ ReachesPlan =>
        /\ IF PeerSubstitution
           THEN /\ install_plan_.download_url = env.p2p_url
                /\ using_p2p = TRUE
                /\ HasCall(calls, "SetUsingP2PForDownloading")
           ELSE /\ install_plan_.download_url = env.current_url
                /\ using_p2p = FALSE
                /\ ~HasCall(calls, "SetUsingP2PForDownloading")
        /\ output # NoPlan => output = install_plan_

C7_Witness ==
    /\ Done
    /\ output # NoPlan
    /\ PeerSubstitution
    /\ output.download_url = UrlHttpPeer
    /\ env.current_url = UrlHttpsUpperB
    /\ using_p2p

----------------------------------------------------------------------------
(* C8 *)

\* C8: in an activation that builds a plan, if the resume predicate holds of
\* the stored hash and response.hash then is_resume is true, the resumed
\* marker is called and neither the restarted marker, the progress reset
\* nor the hash write is called; otherwise is_resume is false and the
\* restarted marker, the progress reset and the write of response.hash are
\* each called once, the stored values changing when the write succeeds.
C8_ResumeBookkeepingStep ==
    pc = "start" /\ pc' = "done" /\ ReachesPlan =>
        IF CanResumeUpdate(prefs_hash, response.hash)
        THEN /\ install_plan_'.is_resume
             /\ CallCount(calls', "UpdateResumed") = 1
             /\ ~HasCall(calls', "UpdateRestarted")
             /\ ~HasCall(calls', "ResetUpdateProgress")
             /\ ~HasCall(calls', "SetString")
             /\ prefs_hash' = prefs_hash
             /\ prefs_progress' = prefs_progress
        ELSE /\ ~install_plan_'.is_resume
             /\ ~HasCall(calls', "UpdateResumed")
             /\ CallCount(calls', "UpdateRestarted") = 1
             /\ CallCount(calls', "ResetUpdateProgress") = 1
             /\ CallCount(calls', "SetString") = 1
             /\ \A i \in DOMAIN calls' :
                   /\ calls'[i] = Call("SetString", TRUE) =>
                         prefs_hash' = response.hash
                   /\ calls'[i] = Call("ResetUpdateProgress", TRUE) =>
                         prefs_progress' = ProgressInvalid

C8_ResumeBookkeeping == [][C8_ResumeBookkeepingStep]_vars

C8_Witness ==
    /\ Done
    /\ ReachesPlan
    /\ install_plan_.is_resume
    /\ HasCall(calls, "UpdateResumed")
    /\ prefs_hash = response.hash

----------------------------------------------------------------------------
(* C9 *)

\* C9: the status signaled and the plan handed downstream are the same for
\* every combination of success and failure of the progress reset, the hash
\* write and the deadline file write.
C9_WritesDoNotDecideStep ==
    pc = "start" /\ pc' = "done" =>
        \A w \in WriteResults :
            LET st == RunPerformAction(EntryState, response, env, w)
            IN  /\ st.code = code'
                /\ st.output = output'
                /\ st.completions = completions'

C9_WritesDoNotDecide == [][C9_WritesDoNotDecideStep]_vars

\* Success although all three writes failed.
C9_Witness ==
    /\ Done
    /\ code = kErrorCodeSuccess
    /\ output # NoPlan
    /\ \E i \in DOMAIN calls : calls[i] = Call("ResetUpdateProgress", FALSE)
    /\ \E i \in DOMAIN calls : calls[i] = Call("SetString", FALSE)
    /\ \E i \in DOMAIN calls : calls[i] = Call("WriteFile", FALSE)

----------------------------------------------------------------------------
(* C10 *)

\* C10: an activation that ends in NoUpdate, RollbackAvoided or
\* ResponseInvalid leaves the p2p-in-use flag, the stored hash, the stored
\* progress and the deadline file as they were and makes no call but the
\* completion signal, also when p2p is enabled and a peer URL is known.
C10_AbortsBeforeSideEffectsStep ==
    pc = "start" /\ pc' = "done"
        /\ (NoUpdate \/ RollbackAvoided \/ ResponseInvalid) =>
        /\ using_p2p' = using_p2p
        /\ prefs_hash' = prefs_hash
        /\ prefs_progress' = prefs_progress
        /\ deadline_file' = deadline_file
        /\ output' = output
        /\ calls' = Append(calls, Call("ActionComplete", TRUE))

C10_AbortsBeforeSideEffects == [][C10_AbortsBeforeSideEffectsStep]_vars

C10_Witness ==
    /\ Done
    /\ ResponseInvalid
    /\ PeerSubstitution
    /\ ~using_p2p
    /\ deadline_file = OldDeadline

====
